---- MODULE Spec2Model ----
(***************************************************************************)
(* Model of the nixie-clock firmware, src/src/NixieClock.cpp: the Context  *)
(* (mode controller), ConfigBehavior with its BehaviorSwitcher watchdog    *)
(* and the /settings handlers, and ClocksBehavior.                          *)
(*                                                                         *)
(* Strings are sequences of one-character strings, so that the config      *)
(* file is a sequence of characters written by println and read back by    *)
(* readStringUntil, as in the code.                                        *)
(***************************************************************************)
EXTENDS Integers, Sequences, FiniteSets, TLC

VARIABLES
  pc,             \* position of the main task: "setup", "loop", "cfg_http", "crashed"
  cb,             \* position of the Ticker callback: "idle", "delete", "assign"
  behavior,       \* Context::behavior: "null", "config" or "clocks"
  configObj,      \* the ConfigBehavior instance: "none", "alive", "destroyed"
  clocksObj,      \* the ClocksBehavior instance: "none", "alive", "destroyed"
  cfgInitialized, \* ConfigBehavior::initialized
  tickerArmed,    \* BehaviorSwitcher::ticker is armed
  idleLeft,       \* seconds left until the armed ticker expires
  requestSeen,    \* history: some HTTP request reached BehaviorSwitcher::canHandle
  configFile,     \* SPIFFS /config.cfg: [exists, data]
  response,       \* the last HTTP response sent: [req, code, body]
  posted,         \* history: the form fields of the last POST /settings answered 200
  clk,            \* the ClocksBehavior fields: initialized, tzOffset, location, sync provider
  clkHist,        \* history of ClocksBehavior: init() calls, ticks, blocking steps, queries
  timeLib,        \* the Time library: sysTime, prevMillis, nextSyncTime, syncInterval
  uptime          \* millis() in seconds: the time since boot

vars == <<pc, cb, behavior, configObj, clocksObj, cfgInitialized, tickerArmed,
          idleLeft, requestSeen, configFile, response, posted, clk, clkHist,
          timeLib, uptime>>

modeVars  == <<pc, cb, behavior, configObj, clocksObj, cfgInitialized,
               tickerArmed, idleLeft, requestSeen>>
storeVars == <<configFile, response, posted>>
clockVars == <<clk, clkHist, timeLib, uptime>>

-----------------------------------------------------------------------------
(* Characters and strings *)

CR == "\r"
LF == "\n"

\* const uint8_t CONFIG_KEYS_COUNT = 4
CONFIG_KEYS_COUNT == 4

\* CONFIG_KEYS[] = {"ssid"}, {"ssid-psk"}, {"api-key"}, {"tz"}
CONFIG_KEYS == <<"ssid", "ssid-psk", "api-key", "tz">>

\* BehaviorSwitcher(Context &context, uint8_t idleFor = 60)
idleFor == 60

-----------------------------------------------------------------------------
(* Config Store: /config.cfg, one value per line *)

\* Print::println(value): the value followed by "\r\n"
println(value) == value \o <<CR, LF>>

\* Stream::available(): the number of characters not yet read
available(data, pos) == Len(data) - pos

\* Stream::readStringUntil(terminator): the characters from pos up to the
\* terminator or the end of the file; the terminator is consumed, not returned
RECURSIVE readStringUntil(_, _, _)
readStringUntil(data, pos, terminator) ==
  IF pos >= Len(data) THEN [str |-> <<>>, pos |-> pos]
  ELSE IF data[pos + 1] = terminator THEN [str |-> <<>>, pos |-> pos + 1]
  ELSE LET rest == readStringUntil(data, pos + 1, terminator)
       IN  [str |-> <<data[pos + 1]>> \o rest.str, pos |-> rest.pos]

\* IBehavior::readNextValue: the text up to '\r', then the rest of the line
\* through '\n' is skipped
readNextValue(data, pos) ==
  LET value == readStringUntil(data, pos, CR)
      skip  == readStringUntil(data, value.pos, LF)
  IN  [value |-> value.str, pos |-> skip.pos]

\* jsonDoc[key] = value: replaces the member of that key, or appends one
jsonSet(doc, key, value) ==
  IF \E i \in 1..Len(doc) : doc[i].key = key
  THEN [i \in 1..Len(doc) |->
          IF doc[i].key = key THEN [key |-> key, value |-> value] ELSE doc[i]]
  ELSE Append(doc, [key |-> key, value |-> value])

\* serializeJson(jsonDoc, jsonStr): a document nothing was ever assigned to
\* is not an object and is written as null; otherwise the object's members
serializeJson(doc) ==
  IF doc = <<>> THEN [kind |-> "null", members |-> <<>>]
  ELSE [kind |-> "object", members |-> doc]

\* the loop of the GET /settings handler:
\* for (i = 0; i < CONFIG_KEYS_COUNT && configFile.available(); ++i)
\*   jsonDoc[key.name] = readNextValue(configFile)
RECURSIVE readSettings(_, _, _, _)
readSettings(data, pos, i, doc) ==
  IF i < CONFIG_KEYS_COUNT /\ available(data, pos) > 0
  THEN LET r == readNextValue(data, pos)
       IN  readSettings(data, r.pos, i + 1, jsonSet(doc, CONFIG_KEYS[i + 1], r.value))
  ELSE doc

\* the body GET /settings sends: the serialized document when the file opens,
\* the literal "{}" when it does not
getSettings(file) ==
  IF file.exists THEN serializeJson(readSettings(file.data, 0, 0, <<>>))
  ELSE [kind |-> "object", members |-> <<>>]

\* ESP8266WebServer::arg(name): the form field's value, or the empty String
\* when the request has no such field
arg(args, name) == IF name \in DOMAIN args THEN args[name] ELSE <<>>

\* the loop of the POST /settings handler on the file opened "w+" (truncated):
\* for (i = 0; i < CONFIG_KEYS_COUNT; ++i) configFile.println(webServer.arg(key.name))
RECURSIVE writeSettings(_, _)
writeSettings(args, i) ==
  IF i < CONFIG_KEYS_COUNT
  THEN println(arg(args, CONFIG_KEYS[i + 1])) \o writeSettings(args, i + 1)
  ELSE <<>>

NoBody == [kind |-> "none", members |-> <<>>]
NoResponse == [req |-> "none", code |-> 0, body |-> NoBody]
NoPost == [valid |-> FALSE, args |-> [k \in {} |-> <<>>]]

\* webServer.on("/settings", HTTP_GET, ...)
OnGetSettings ==
  /\ response' = [req |-> "GET /settings", code |-> 200, body |-> getSettings(configFile)]
  /\ UNCHANGED <<configFile, posted>>

\* webServer.on("/settings", HTTP_POST, ...); openOk is the outcome of
\* SPIFFS.open(CONFIG_FILE, "w+")
OnPostSettings(args, openOk) ==
  IF openOk
  THEN /\ configFile' = [exists |-> TRUE, data |-> writeSettings(args, 0)]
       /\ response' = [req |-> "POST /settings", code |-> 200,
                       body |-> [kind |-> "OK", members |-> <<>>]]
       /\ posted' = [valid |-> TRUE, args |-> args]
  ELSE /\ response' = [req |-> "POST /settings", code |-> 500,
                       body |-> [kind |-> "error", members |-> <<>>]]
       /\ UNCHANGED <<configFile, posted>>

\* webServer.on("/update", HTTP_GET, ...): the explicit 404
OnGetUpdate ==
  /\ response' = [req |-> "GET /update", code |-> 404,
                  body |-> [kind |-> "error", members |-> <<>>]]
  /\ UNCHANGED <<configFile, posted>>

\* webServer.serveStatic("/", SPIFFS, "/", ...): a static file or the server's 404
OnStatic(found) ==
  /\ response' = [req |-> "GET /", code |-> IF found THEN 200 ELSE 404,
                  body |-> [kind |-> "static", members |-> <<>>]]
  /\ UNCHANGED <<configFile, posted>>

-----------------------------------------------------------------------------
(* Context: the mode controller *)

\* setBehavior that forgets the delete: the old instance stays alive
deleted_forgotten(pointer, which, obj) == obj

\* delete this->behavior, seen from one instance: the instance the pointer
\* names is destroyed; deleting nullptr does nothing
deleted(pointer, which, obj) ==
  IF pointer = which /\ obj = "alive" THEN "destroyed" ELSE obj

\* a BehaviorSwitcher whose ticker is never armed
once_unarmed(seconds) == [armed |-> FALSE, left |-> seconds]

\* Ticker::once(idleFor, callback) in the BehaviorSwitcher constructor: the
\* ticker is armed and expires idleFor seconds later
once(seconds) == [armed |-> TRUE, left |-> seconds]

\* a canHandle that starts the idle window again
detach_rearmed(armed) == TRUE

\* a canHandle that leaves the ticker as it is
detach_forgotten(armed) == armed

\* BehaviorSwitcher::canHandle: ticker.detach() disarms the ticker, armed or not
detach(armed) == FALSE

\* setup(): if SPIFFS.begin() succeeds, new ConfigBehavior(context) is built and
\* handed to Context::setBehavior.  The constructor returns early, leaving
\* initialized false and no BehaviorSwitcher, when WiFi.softAP fails; otherwise
\* the BehaviorSwitcher arms its ticker for idleFor seconds.
setup ==
  /\ pc = "setup"
  /\ \E mountOk \in BOOLEAN, apOk \in BOOLEAN :
       IF mountOk
       THEN /\ configObj' = "alive"
            /\ cfgInitialized' = apOk
            /\ tickerArmed' = IF apOk THEN once(idleFor).armed ELSE tickerArmed
            /\ idleLeft' = IF apOk THEN once(idleFor).left ELSE idleLeft
            /\ clocksObj' = deleted(behavior, "clocks", clocksObj)
            /\ behavior' = "config"
       ELSE UNCHANGED <<configObj, cfgInitialized, tickerArmed, idleLeft,
                        clocksObj, behavior>>
  /\ pc' = "loop"
  /\ UNCHANGED <<cb, requestSeen>>
  /\ UNCHANGED storeVars
  /\ UNCHANGED clockVars

\* loop() -> Context::doLoop with behavior == nullptr: behavior->doLoop() is a
\* virtual call through a null pointer; on the ESP8266 the load from address 0
\* raises an exception and the run ends
loop_null ==
  /\ pc = "loop" /\ cb = "idle"
  /\ behavior = "null"
  /\ pc' = "crashed"
  /\ UNCHANGED <<cb, behavior, configObj, clocksObj, cfgInitialized,
                 tickerArmed, idleLeft, requestSeen>>
  /\ UNCHANGED storeVars
  /\ UNCHANGED clockVars

\* a doLoop() that serves clients without looking at initialized
servesClients_always(initialized) == TRUE

\* the test of ConfigBehavior::doLoop: if (initialized)
servesClients(initialized) == initialized

\* loop() -> Context::doLoop -> ConfigBehavior::doLoop: nothing when not
\* initialized; otherwise dnsServer.processNextRequest() and then
\* webServer.handleClient(), which yields while it waits for the client
loop_config ==
  /\ pc = "loop" /\ cb = "idle"
  /\ behavior = "config"
  /\ pc' = IF servesClients(cfgInitialized) THEN "cfg_http" ELSE "loop"
  /\ UNCHANGED <<cb, behavior, configObj, clocksObj, cfgInitialized,
                 tickerArmed, idleLeft, requestSeen>>
  /\ UNCHANGED storeVars
  /\ UNCHANGED clockVars

Methods == {"GET /settings", "POST /settings", "GET /update", "GET /"}

\* webServer.handleClient() with a request: every handler is asked in the order
\* added, the BehaviorSwitcher first (it detaches the ticker and declines),
\* then the route's handler runs
handleRequest(argsSet) ==
  /\ pc = "cfg_http" /\ cb = "idle"
  /\ configObj = "alive"
  /\ tickerArmed' = detach(tickerArmed)
  /\ requestSeen' = TRUE
  /\ \E req \in Methods :
       CASE req = "GET /settings"  -> OnGetSettings
         [] req = "POST /settings" ->
              \E args \in argsSet, openOk \in BOOLEAN : OnPostSettings(args, openOk)
         [] req = "GET /update"    -> OnGetUpdate
         [] req = "GET /"          -> \E found \in BOOLEAN : OnStatic(found)
  /\ pc' = "loop"
  /\ UNCHANGED <<cb, behavior, configObj, clocksObj, cfgInitialized, idleLeft>>
  /\ UNCHANGED clockVars

\* webServer.handleClient() with no client waiting: the tick ends
handleNoClient ==
  /\ pc = "cfg_http" /\ cb = "idle"
  /\ configObj = "alive"
  /\ pc' = "loop"
  /\ UNCHANGED <<cb, behavior, configObj, clocksObj, cfgInitialized,
                 tickerArmed, idleLeft, requestSeen>>
  /\ UNCHANGED storeVars
  /\ UNCHANGED clockVars

\* The rest of ConfigBehavior::doLoop after the instance was deleted under it:
\* webServer.handleClient() runs on freed memory.  Undefined behaviour; the
\* build either finishes the tick without harm or faults, which ends the run.
staleTick ==
  /\ pc = "cfg_http" /\ cb = "idle"
  /\ configObj = "destroyed"
  /\ pc' \in {"loop", "crashed"}
  /\ UNCHANGED <<cb, behavior, configObj, clocksObj, cfgInitialized,
                 tickerArmed, idleLeft, requestSeen>>
  /\ UNCHANGED storeVars
  /\ UNCHANGED clockVars

\* Time passes on the armed ticker: some seconds of the idle window
elapse ==
  /\ tickerArmed /\ idleLeft > 0
  /\ cb = "idle" /\ pc \in {"loop", "cfg_http"}
  /\ \E seconds \in 1..idleLeft :
       /\ idleLeft' = idleLeft - seconds
       /\ uptime' = uptime + seconds
  /\ UNCHANGED <<pc, cb, behavior, configObj, clocksObj, cfgInitialized,
                 tickerArmed, requestSeen>>
  /\ UNCHANGED storeVars
  /\ UNCHANGED <<clk, clkHist, timeLib>>

\* The points at which the main task yields to the system context, where
\* Ticker callbacks run: between two loop() calls, and inside
\* webServer.handleClient()
YieldPoints == {"loop", "cfg_http"}

\* a ticker armed with attach(): it stays armed when its callback is called
expired_repeating(armed) == armed

\* a ticker armed with once() is disarmed when its callback is called
expired(armed) == FALSE

\* The ticker expires: the callback [&]() { context.setBehavior(new
\* ClocksBehavior()); } starts by evaluating its argument, new ClocksBehavior()
ticker_fire ==
  /\ tickerArmed /\ idleLeft = 0
  /\ cb = "idle" /\ pc \in YieldPoints
  /\ tickerArmed' = expired(tickerArmed)
  /\ clocksObj' = "alive"
  /\ cb' = "delete"
  /\ UNCHANGED <<pc, behavior, configObj, cfgInitialized, idleLeft, requestSeen>>
  /\ UNCHANGED storeVars
  /\ UNCHANGED clockVars

\* Context::setBehavior, first statement: delete this->behavior.
\* ~ConfigBehavior stops the servers; its members, the BehaviorSwitcher and
\* its Ticker among them, are destroyed
setBehavior_delete ==
  /\ cb = "delete"
  /\ configObj' = deleted(behavior, "config", configObj)
  /\ tickerArmed' = IF configObj' = "destroyed" THEN FALSE ELSE tickerArmed
  /\ cb' = "assign"
  /\ UNCHANGED <<pc, behavior, clocksObj, cfgInitialized, idleLeft, requestSeen>>
  /\ UNCHANGED storeVars
  /\ UNCHANGED clockVars

\* Context::setBehavior, second statement: this->behavior = behavior
setBehavior_assign ==
  /\ cb = "assign"
  /\ behavior' = "clocks"
  /\ cb' = "idle"
  /\ UNCHANGED <<pc, configObj, clocksObj, cfgInitialized, tickerArmed,
                 idleLeft, requestSeen>>
  /\ UNCHANGED storeVars
  /\ UNCHANGED clockVars

-----------------------------------------------------------------------------
(* ClocksBehavior *)

AUTO == <<"a", "u", "t", "o">>

\* SECS_PER_HOUR, SECS_PER_MIN, SECS_PER_DAY of Time.h
SECS_PER_HOUR == 3600
SECS_PER_MIN == 60
SECS_PER_DAY == 86400

Digits == {"0", "1", "2", "3", "4", "5", "6", "7", "8", "9"}

DigitVal(c) ==
  CASE c = "0" -> 0 [] c = "1" -> 1 [] c = "2" -> 2 [] c = "3" -> 3 [] c = "4" -> 4
    [] c = "5" -> 5 [] c = "6" -> 6 [] c = "7" -> 7 [] c = "8" -> 8 [] c = "9" -> 9

\* the digits of atol: the decimal value of the digits from position i on,
\* up to the first character that is no digit
RECURSIVE atolDigits(_, _, _)
atolDigits(s, i, acc) ==
  IF i <= Len(s) /\ s[i] \in Digits
  THEN atolDigits(s, i + 1, acc * 10 + DigitVal(s[i]))
  ELSE acc

\* String::toInt (atol): an optional sign, then digits; 0 when there is none
toInt(s) ==
  IF s = <<>> THEN 0
  ELSE IF s[1] = "-" THEN 0 - atolDigits(s, 2, 0)
  ELSE IF s[1] = "+" THEN atolDigits(s, 2, 0)
  ELSE atolDigits(s, 1, 0)

\* String::substring(left, right): the characters at the 0-based positions
\* left..right-1, the bounds swapped when left > right and clipped to the length
substring(s, left, right) ==
  LET lo == IF left > right THEN right ELSE left
      hi == IF left > right THEN left ELSE right
      to == IF hi > Len(s) THEN Len(s) ELSE hi
  IN  IF lo >= Len(s) THEN <<>> ELSE SubSeq(s, lo + 1, to)

\* an init() that forgets the sign of the offset
parseOffset_unsigned(tz) ==
  toInt(substring(tz, 1, 3)) * SECS_PER_HOUR + toInt(substring(tz, 4, 6)) * SECS_PER_MIN

\* the else branch of init(): tz is a +-hh:mm offset
parseOffset(tz) ==
  LET hours   == substring(tz, 1, 3)
      minutes == substring(tz, 4, 6)
      offset  == toInt(hours) * SECS_PER_HOUR + toInt(minutes) * SECS_PER_MIN
  IN  IF Len(tz) > 0 /\ tz[1] = "-" THEN 0 - offset ELSE offset

\* Location::isValid
isValid(location) == location # "invalid"

\* what happens inside geolocate(): the request body does not serialize, the
\* POST does not answer 200, the response does not parse, it parses and has
\* the location member, it parses and has none
GeoOutcomes == {"serialize_failed", "http_failed", "parse_failed", "ok", "ok_no_location"}

\* geolocate(): INVALID_LOCATION unless the request body serializes, the POST
\* answers 200 and the response parses; then {location["lat"], location["lng"]},
\* which is {0.0, 0.0}, a valid Location, when the members are missing
geolocate(outcome) ==
  CASE outcome = "ok"             -> "valid"
    [] outcome = "ok_no_location" -> "zero"
    [] OTHER                      -> "invalid"

\* the blocking steps of geolocate(): the POST is sent once the body serialized
geolocateSteps(outcome) ==
  IF outcome = "serialize_failed" THEN {"geolocate"} ELSE {"geolocate", "geolocate_POST"}

\* an init() that asks for the location with a single visible network
enoughNetworks_one(networksFound) == networksFound > 0

\* the test of init() on the result of WiFi.scanNetworks(): networksFound > 1
enoughNetworks(networksFound) == networksFound > 1

\* an init() that arms the resynchronization before its early returns
armsSync_always(fileOpen, connOk) == TRUE

\* whether init() reaches setSyncInterval/setSyncProvider: it returns before
\* them when the config file does not open or the station does not connect
armsSync(fileOpen, connOk) == fileOpen /\ connOk

\* an init() that never sets initialized
markInitialized_forgotten(c) == c

\* the first statement of init(): initialized = true
markInitialized(c) == [c EXCEPT !.initialized = TRUE]

\* the timezone specifier of the settings file: its fourth line
TzOf(file) ==
  LET ssid    == readNextValue(file.data, 0)
      ssidPsk == readNextValue(file.data, ssid.pos)
      apiKey  == readNextValue(file.data, ssidPsk.pos)
  IN  readNextValue(file.data, apiKey.pos).value

NoScan == [done |-> FALSE, found |-> 0]

\* ClocksBehavior::init() up to the timezone branch: its effect on the fields,
\* the blocking steps it takes, how it ended and what the scan reported.
\* connOk is WiFi.waitForConnectResult() == WL_CONNECTED, networksFound is
\* WiFi.scanNetworks(), geo is what happens inside geolocate().
init(c, file, connOk, networksFound, geo) ==
  LET c1      == markInitialized(c)
      ssid    == readNextValue(file.data, 0)
      ssidPsk == readNextValue(file.data, ssid.pos)
      apiKey  == readNextValue(file.data, ssidPsk.pos)
      tz      == readNextValue(file.data, apiKey.pos)
      c2      == [c1 EXCEPT !.apiKey = apiKey.value]
      armed   == armsSync(file.exists, connOk)
      scanned == [done |-> TRUE, found |-> networksFound]
  IN  IF ~file.exists
      THEN [clk |-> [c1 EXCEPT !.syncArmed = armed],
            steps |-> {"open"}, result |-> "no_settings", scan |-> NoScan]
      ELSE IF ~connOk
      THEN [clk |-> [c2 EXCEPT !.syncArmed = armed],
            steps |-> {"open", "connect"}, result |-> "no_connect", scan |-> NoScan]
      ELSE IF tz.value = AUTO
      THEN IF enoughNetworks(networksFound)
           THEN [clk |-> [c2 EXCEPT !.location = geolocate(geo), !.syncArmed = armed],
                 steps |-> {"open", "connect", "scan"} \cup geolocateSteps(geo),
                 result |-> IF isValid(geolocate(geo)) THEN "located" ELSE "not_located",
                 scan |-> scanned]
           ELSE [clk |-> [c2 EXCEPT !.syncArmed = armed],
                 steps |-> {"open", "connect", "scan"}, result |-> "not_located",
                 scan |-> scanned]
      ELSE [clk |-> [c2 EXCEPT !.tzOffset = parseOffset(tz.value), !.syncArmed = armed],
            steps |-> {"open", "connect"}, result |-> "literal", scan |-> NoScan]

\* what WiFi.scanNetworks() returns: a failed scan, or the number of networks
NetworksFound == {-1, 0, 1, 2}

\* what happens to the GET of getTime(): it does not answer 200, its body does
\* not parse, its body parses
GetOutcomes == {"http_failed", "parse_failed", "ok"}
RawOffsets == {-18000, 0, 3600}
DstOffsets == {0, 3600}

\* a member of the parsed body: missing, or present with an integer value
Missing == [present |-> FALSE, value |-> 0]
Members(values) == {Missing} \cup {[present |-> TRUE, value |-> v] : v \in values}

\* jsonDoc["..."] converted to int32_t: 0 when the member is missing
asInt(member) == IF member.present THEN member.value ELSE 0

\* the epochs parseRFC7231Date() makes of the Date header of the HEAD response
Epochs == {1600000000, 1700000000}

\* a getTime() that asks for the offset whatever the location
wantsOffset_always(location) == TRUE

\* the test of getTime() before its second request: location.isValid()
wantsOffset(location) == isValid(location)

\* getTime() on a parsed body: tzOffset = rawOffset + dstOffset
storeOffset(tzOffset, rawOffset, dstOffset) == asInt(rawOffset) + asInt(dstOffset)

\* a getTime() that goes on with the Date header of a failed HEAD request
headFailed_unchecked(time) == time

\* getTime() when the HEAD request does not answer 200: return 0
headFailed(time) == 0

\* a getTime() that gives up the epoch when the offset request fails
getFailed_noTime(time) == 0

\* getTime() when the GET does not answer 200: return time
getFailed(time) == time

\* ClocksBehavior::getTime(): the HEAD request for the Date header, 0 when it
\* does not answer 200; then, with a valid location, the GET whose parsed body
\* sets tzOffset; the epoch of the Date header is returned
getTime(c, headOk, time, get, rawOffset, dstOffset) ==
  IF ~headOk THEN [clk |-> c, steps |-> {"HEAD"}, time |-> headFailed(time)]
  ELSE IF wantsOffset(c.location)
  THEN CASE get = "http_failed" ->
              [clk |-> c, steps |-> {"HEAD", "GET"}, time |-> getFailed(time)]
         [] get = "parse_failed" ->
              [clk |-> c, steps |-> {"HEAD", "GET"}, time |-> time]
         [] get = "ok" ->
              [clk |-> [c EXCEPT !.tzOffset = storeOffset(@, rawOffset, dstOffset)],
               steps |-> {"HEAD", "GET"}, time |-> time]
  ELSE [clk |-> c, steps |-> {"HEAD"}, time |-> time]

\* the cap on the ClocksBehavior ticks the model follows
MaxTicks == 3

NoClk == [initialized |-> FALSE, apiKey |-> <<>>, tzOffset |-> 0,
          location |-> "invalid", syncArmed |-> FALSE]

\* the Time library before any call: the clock counts from 0 and the default
\* sync interval is 300 seconds
NoTimeLib == [sysTime |-> 0, prevMillis |-> 0, nextSyncTime |-> 0, syncInterval |-> 300]

\* setTime(t) of the Time library
setTime(tl, t, millis) ==
  [tl EXCEPT !.sysTime = t, !.nextSyncTime = t + tl.syncInterval, !.prevMillis = millis]

\* setSyncInterval(interval) of the Time library
setSyncInterval(tl, interval) ==
  [tl EXCEPT !.syncInterval = interval, !.nextSyncTime = tl.sysTime + interval]

\* the test of now(): a provider is set and nextSyncTime <= sysTime, sysTime
\* caught up with millis()
syncDue(c, tl, millis) ==
  c.syncArmed /\ tl.nextSyncTime <= tl.sysTime + (millis - tl.prevMillis)

\* now() of the Time library: the clock catches up with millis(); when a
\* resync is due and a provider is set, the provider is asked; its epoch sets
\* the clock, its 0 puts the next resync one interval later
now(c, tl, millis, headOk, time, get, rawOffset, dstOffset) ==
  LET tl1 == [tl EXCEPT !.sysTime = @ + (millis - tl.prevMillis), !.prevMillis = millis]
  IN  IF syncDue(c, tl, millis)
      THEN LET q == getTime(c, headOk, time, get, rawOffset, dstOffset)
           IN  [clk |-> q.clk, steps |-> q.steps, asked |-> TRUE, time |-> q.time,
                tl |-> IF q.time # 0 THEN setTime(tl1, q.time, millis)
                       ELSE [tl1 EXCEPT !.nextSyncTime = tl1.sysTime + tl1.syncInterval]]
      ELSE [clk |-> c, steps |-> {}, asked |-> FALSE, time |-> 0, tl |-> tl1]

\* the end of init(): setSyncInterval(SECS_PER_DAY), then setSyncProvider,
\* which makes a resync due and calls now()
setSyncProvider(c, tl, millis, headOk, time, get, rawOffset, dstOffset) ==
  IF c.syncArmed
  THEN LET tl1 == setSyncInterval(tl, SECS_PER_DAY)
       IN  now(c, [tl1 EXCEPT !.nextSyncTime = tl1.sysTime], millis,
               headOk, time, get, rawOffset, dstOffset)
  ELSE [clk |-> c, steps |-> {}, asked |-> FALSE, time |-> 0, tl |-> tl]

\* a doLoop() that prints the time without the offset
display_utc(t, tzOffset) == t

\* the value doLoop() hands to the display stand-in: now() + tzOffset
display(t, tzOffset) == t + tzOffset

\* the seconds from the start of one tick to the start of the next: the
\* delay(5000) of doLoop(), or a day
TickSeconds == {5, SECS_PER_DAY}

NoQuery == [head |-> "none", get |-> "none", rawOffset |-> Missing, dstOffset |-> Missing,
            before |-> NoClk, date |-> 0, time |-> 0]
NoHist == [inits |-> 0, ticks |-> 0, steps |-> {}, result |-> "none",
           initSteps |-> {}, scan |-> NoScan, initOffset |-> 0,
           query |-> NoQuery, queries |-> <<>>, requests |-> {},
           lastSync |-> [ok |-> FALSE, at |-> 0, epoch |-> 0],
           printed |-> [done |-> FALSE, value |-> 0, at |-> 0]]

\* history of the query a tick made: what the requests met, the fields before
\* it, the epoch of the Date header and what getTime() returned
queryOf(n, before, headOk, time, get, rawOffset, dstOffset) ==
  IF ~n.asked THEN NoQuery
  ELSE LET got == "GET" \in n.steps /\ get = "ok"
       IN  [head |-> IF headOk THEN "ok" ELSE "failed",
            get |-> IF "GET" \in n.steps THEN get ELSE "none",
            rawOffset |-> IF got THEN rawOffset ELSE Missing,
            dstOffset |-> IF got THEN dstOffset ELSE Missing,
            before |-> before, date |-> IF headOk THEN time ELSE 0, time |-> n.time]

\* history kept by every tick: the steps and the query of this tick, the
\* times of all queries, the requests ever sent, the last successful sync
tickHist(h, n, before, millis, headOk, time, get, rawOffset, dstOffset) ==
  [h EXCEPT !.ticks = @ + 1,
            !.steps = n.steps,
            !.query = queryOf(n, before, headOk, time, get, rawOffset, dstOffset),
            !.queries = IF n.asked THEN Append(@, millis) ELSE @,
            !.requests = @ \cup n.steps,
            !.lastSync = IF n.time # 0 THEN [ok |-> TRUE, at |-> millis, epoch |-> n.time]
                         ELSE @]

\* what the ticks of ClocksBehavior meet: the results of the requests, of the
\* connection and of the scan, the seconds a tick takes, and the cap on the
\* ticks followed
ClockEnv ==
  [headOk |-> BOOLEAN, time |-> Epochs, get |-> GetOutcomes,
   rawOffset |-> Members(RawOffsets), dstOffset |-> Members(DstOffsets),
   connOk |-> BOOLEAN, networksFound |-> NetworksFound, geo |-> GeoOutcomes,
   seconds |-> TickSeconds, ticks |-> MaxTicks]

\* what a call of init() can meet on the given file: the connection is tried
\* when the file opens, the scan is made when connected with tz "auto", and
\* geolocate() is called when the scan found enough networks
InitInputs(env, file) ==
  LET unread == [connOk |-> FALSE, networksFound |-> 0, geo |-> "http_failed"]
  IN  IF ~file.exists THEN {unread}
      ELSE {unread} \cup
           (IF TzOf(file) # AUTO THEN {[unread EXCEPT !.connOk = TRUE]}
            ELSE {[unread EXCEPT !.connOk = TRUE, !.networksFound = n] :
                    n \in {k \in env.networksFound : ~enoughNetworks(k)}}
                 \cup {[connOk |-> TRUE, networksFound |-> n, geo |-> g] :
                    n \in {k \in env.networksFound : enoughNetworks(k)}, g \in env.geo})

\* the inputs of a getTime() that is not called
NotAsked == [headOk |-> FALSE, time |-> 0, get |-> "http_failed",
             rawOffset |-> Missing, dstOffset |-> Missing]

\* what a call of getTime() can meet with the given Location: the GET is sent
\* after a successful HEAD when the Location asks for it, and the members of
\* its body are read when it parsed
QueryInputs(env, location) ==
  {[NotAsked EXCEPT !.time = t] : t \in env.time} \cup
  (IF ~wantsOffset(location)
   THEN {[NotAsked EXCEPT !.headOk = TRUE, !.time = t] : t \in env.time}
   ELSE {[NotAsked EXCEPT !.headOk = TRUE, !.time = t, !.get = g] :
           t \in env.time, g \in env.get \ {"ok"}}
        \cup {[headOk |-> TRUE, time |-> t, get |-> g, rawOffset |-> r, dstOffset |-> d] :
           t \in env.time, g \in env.get \cap {"ok"},
           r \in env.rawOffset, d \in env.dstOffset})

\* what a tick can meet: the inputs of getTime() when the tick calls it
TickInputs(env, c, tl, millis) ==
  IF syncDue(c, tl, millis)
  THEN {[q |-> q, early |-> e] : q \in QueryInputs(env, c.location), e \in BOOLEAN}
  ELSE {[q |-> NotAsked, early |-> FALSE]}

\* loop() -> Context::doLoop -> ClocksBehavior::doLoop: init() when not yet
\* initialized, otherwise Serial.println(now() + tzOffset) and delay(5000).
\* The sync provider is asked in either branch: by now() when a resync is
\* due, and by setSyncProvider when init() arms it.  The operands of
\* now() + tzOffset are evaluated in an unspecified order: tzOffset is read
\* before (early) or after the call of now(), which may assign it.
loop_clocks(env) ==
  /\ pc = "loop" /\ cb = "idle"
  /\ behavior = "clocks"
  /\ clkHist.ticks < env.ticks
  /\ IF clk.initialized
     THEN \E in \in TickInputs(env, clk, timeLib, uptime) :
            LET q == in.q
                n == now(clk, timeLib, uptime,
                         q.headOk, q.time, q.get, q.rawOffset, q.dstOffset)
                h == tickHist(clkHist, n, clk, uptime,
                              q.headOk, q.time, q.get, q.rawOffset, q.dstOffset)
                tzOffset == IF in.early THEN clk.tzOffset ELSE n.clk.tzOffset
            IN  /\ clk' = n.clk
                /\ timeLib' = n.tl
                /\ clkHist' = [h EXCEPT !.printed =
                                 [done |-> TRUE, at |-> uptime,
                                  value |-> display(n.tl.sysTime, tzOffset)]]
     ELSE \E met \in InitInputs(env, configFile) :
            LET i == init(clk, configFile, met.connOk, met.networksFound, met.geo)
            IN  \E q \in IF i.clk.syncArmed THEN QueryInputs(env, i.clk.location)
                         ELSE {NotAsked} :
                  LET n == setSyncProvider(i.clk, timeLib, uptime,
                             q.headOk, q.time, q.get, q.rawOffset, q.dstOffset)
                      h == tickHist(clkHist, n, i.clk, uptime,
                             q.headOk, q.time, q.get, q.rawOffset, q.dstOffset)
                  IN  /\ clk' = n.clk
                      /\ timeLib' = n.tl
                      /\ clkHist' = [h EXCEPT !.inits = @ + 1,
                                              !.steps = i.steps \cup n.steps,
                                              !.requests = @ \cup i.steps,
                                              !.result = i.result,
                                              !.initSteps = i.steps,
                                              !.scan = i.scan,
                                              !.initOffset = i.clk.tzOffset]
  /\ \E seconds \in env.seconds : uptime' = uptime + seconds
  /\ UNCHANGED modeVars
  /\ UNCHANGED storeVars

-----------------------------------------------------------------------------
(* The specifications *)

KeySet == {CONFIG_KEYS[i] : i \in 1..CONFIG_KEYS_COUNT}

\* the form fields of a request that supplies all four keys
Form(ssid, ssidPsk, apiKey, tz) ==
  [k \in KeySet |-> CASE k = "ssid" -> ssid [] k = "ssid-psk" -> ssidPsk
                      [] k = "api-key" -> apiKey [] k = "tz" -> tz]

Absent == [exists |-> FALSE, data |-> <<>>]
FileOf(data) == [exists |-> TRUE, data |-> data]

RECURSIVE linesOf(_)
linesOf(values) ==
  IF values = <<>> THEN <<>> ELSE println(Head(values)) \o linesOf(Tail(values))

MINUS_0530 == <<"-", "0", "5", ":", "3", "0">>
PLUS_0000 == <<"+", "0", "0", ":", "0", "0">>

\* the timezone specifiers of the stored files the whole-program runs start from
TzValues == {AUTO, MINUS_0530, <<>>}

\* the flash contents the whole-program runs start from: no file, an empty
\* file, a file of two lines, and complete files
InitFiles ==
  {Absent, FileOf(<<>>), FileOf(linesOf(<<<<"s">>, <<"p">>>>))}
    \cup {FileOf(linesOf(<<<<"s">>, <<"p">>, <<"k">>, tz>>)) : tz \in TzValues}

\* the forms posted in the whole-program runs: a complete one and one with no tz
SomeForms ==
  {Form(<<"s">>, <<"p">>, <<"k">>, AUTO),
   [k \in KeySet \ {"tz"} |-> <<"x">>]}

Init ==
  /\ pc = "setup"
  /\ cb = "idle"
  /\ behavior = "null"
  /\ configObj = "none"
  /\ clocksObj = "none"
  /\ cfgInitialized = FALSE
  /\ tickerArmed = FALSE
  /\ idleLeft = 0
  /\ requestSeen = FALSE
  /\ configFile \in InitFiles
  /\ response = NoResponse
  /\ posted = NoPost
  /\ clk = NoClk
  /\ clkHist = NoHist
  /\ timeLib = NoTimeLib
  /\ uptime = 0

Next ==
  \/ setup
  \/ loop_null
  \/ loop_config
  \/ handleRequest(SomeForms)
  \/ handleNoClient
  \/ staleTick
  \/ elapse
  \/ ticker_fire
  \/ setBehavior_delete
  \/ setBehavior_assign
  \/ loop_clocks(ClockEnv)

Spec == Init /\ [][Next]_vars

\* The timer runs, the system context delivers an expired ticker and finishes
\* its callback, and loop() is called again and again; the ticks of the
\* ClocksBehavior, followed up to a cap, are left free
LiveSpec ==
  /\ Spec
  /\ WF_vars(setup) /\ WF_vars(loop_null) /\ WF_vars(loop_config)
  /\ WF_vars(handleNoClient) /\ WF_vars(staleTick)
  /\ WF_vars(elapse) /\ WF_vars(ticker_fire)
  /\ WF_vars(setBehavior_delete) /\ WF_vars(setBehavior_assign)

(* The Config Store under the /settings handlers: ConfigBehavior is serving, *)
(* the stored file and the posted forms range over all small values          *)

\* the values of a stored line: no line terminator inside
LineValues == {<<>>, <<"a">>}

\* the values of a posted form field
FieldValues == LineValues \cup {<<"a", CR, "b">>}

RECURSIVE seqsOf(_, _)
seqsOf(S, n) ==
  IF n = 0 THEN {<<>>}
  ELSE {Append(q, v) : q \in seqsOf(S, n - 1), v \in S}

\* a store holding k of the expected lines, 0 <= k <= CONFIG_KEYS_COUNT
StoredFiles ==
  {Absent} \cup
  {FileOf(linesOf(vs)) : vs \in UNION {seqsOf(LineValues, k) : k \in 0..CONFIG_KEYS_COUNT}}

\* every form over a subset of the keys
AllForms == UNION {[ks -> FieldValues] : ks \in SUBSET KeySet}

InitStore ==
  /\ pc = "loop"
  /\ cb = "idle"
  /\ behavior = "config"
  /\ configObj = "alive"
  /\ clocksObj = "none"
  /\ cfgInitialized = TRUE
  /\ tickerArmed = TRUE
  /\ idleLeft = idleFor
  /\ requestSeen = FALSE
  /\ configFile \in StoredFiles
  /\ response = NoResponse
  /\ posted = NoPost
  /\ clk = NoClk
  /\ clkHist = NoHist
  /\ timeLib = NoTimeLib
  /\ uptime = 0

NextStore ==
  \/ loop_config
  \/ handleRequest(AllForms)
  \/ handleNoClient

SpecStore == InitStore /\ [][NextStore]_vars

(* The literal timezone specifiers under ClocksBehavior: the switch is over, *)
(* the settings file holds any sHH:MM in its fourth line                      *)

DigitChars == <<"0", "1", "2", "3", "4", "5", "6", "7", "8", "9">>

\* the specifier sHH:MM of a sign, hours and minutes
Literal(s, hh, mm) ==
  <<s, DigitChars[(hh \div 10) + 1], DigitChars[(hh % 10) + 1], ":",
       DigitChars[(mm \div 10) + 1], DigitChars[(mm % 10) + 1]>>

Signs == {"+", "-"}
Hours == 0..23
Minutes == 0..59

\* the cap on the ticks followed for every literal specifier
OffsetTicks == 2

\* what the ticks meet under a literal specifier: one epoch, a day from tick
\* to tick; the scan and the geolocation are not reached
LiteralEnv ==
  [ClockEnv EXCEPT !.time = {1600000000}, !.networksFound = {2}, !.geo = {"ok"},
                   !.get = {"http_failed", "ok"},
                   !.rawOffset = {Missing, [present |-> TRUE, value |-> 3600]},
                   !.dstOffset = {Missing},
                   !.seconds = {SECS_PER_DAY}, !.ticks = OffsetTicks]

InitOffset ==
  /\ pc = "loop"
  /\ cb = "idle"
  /\ behavior = "clocks"
  /\ configObj = "destroyed"
  /\ clocksObj = "alive"
  /\ cfgInitialized = TRUE
  /\ tickerArmed = FALSE
  /\ idleLeft = 0
  /\ requestSeen = FALSE
  /\ \E s \in Signs, hh \in Hours, mm \in Minutes :
       configFile = FileOf(linesOf(<<<<"s">>, <<"p">>, <<"k">>, Literal(s, hh, mm)>>))
  /\ response = NoResponse
  /\ posted = NoPost
  /\ clk = NoClk
  /\ clkHist = NoHist
  /\ timeLib = NoTimeLib
  /\ uptime = idleFor

NextOffset == loop_clocks(LiteralEnv)

SpecOffset == InitOffset /\ [][NextOffset]_vars

-----------------------------------------------------------------------------
(* The claims *)

\* the instance Context::behavior points to is alive
LiveDelegate ==
  \/ behavior = "config" /\ configObj = "alive"
  \/ behavior = "clocks" /\ clocksObj = "alive"

\* C1: in every state after setup() has returned, outside a running
\* setBehavior, the controller owns exactly one live Behavior and loop()
\* delegates to it: the pointer is never null and never names a destroyed
\* instance, whatever SPIFFS.begin() and WiFi.softAP() returned.
C1_OneLiveBehaviorAfterSetup ==
  (pc # "setup" /\ cb = "idle") => LiveDelegate

\* C2: the switch the idle watchdog asks for is applied only at a tick
\* boundary: the callback never runs while ConfigBehavior::doLoop is in
\* progress, so no step of a tick runs on a destroyed behavior.
C2_SwitchOnlyAtTickBoundary ==
  /\ cb # "idle" => pc = "loop"
  /\ ~(pc = "cfg_http" /\ configObj = "destroyed")

\* C3 as claimed: at every moment at most one Behavior instance is alive;
\* no state has a live ConfigBehavior and a live ClocksBehavior.
C3_AtMostOneAlive ==
  ~(configObj = "alive" /\ clocksObj = "alive")

\* C3 as amended: a ConfigBehavior and a ClocksBehavior are both alive only
\* inside the watchdog callback, between new ClocksBehavior() and the delete
\* in setBehavior; the old behavior is destroyed before the new one becomes
\* the delegate; and whenever a tick can be delegated the delegate, if there
\* is one, is alive, so no tick is delegated to a replaced behavior.
C3_HandOffOrder ==
  /\ (configObj = "alive" /\ clocksObj = "alive") => cb = "delete"
  /\ cb = "assign" => (configObj = "destroyed" /\ behavior = "config")
  /\ behavior = "clocks" => (configObj = "destroyed" /\ clocksObj = "alive")
  /\ (pc = "loop" /\ cb = "idle" /\ behavior # "null") => LiveDelegate

\* C3's case: the hand-off is over and a tick went to the ClocksBehavior
C3_Witness ==
  /\ behavior = "clocks" /\ configObj = "destroyed" /\ clkHist.ticks >= 1

\* C4: an HTTP request that reaches canHandle cancels the pending switch, and
\* the switch happens only when no request was received and the idle window
\* has run out: once a request was seen the ticker is disarmed and no
\* ClocksBehavior is ever created; a ClocksBehavior exists only if no request
\* was seen and the idleFor seconds have elapsed.
C4_RequestCancelsSwitch ==
  /\ requestSeen => (~tickerArmed /\ clocksObj = "none" /\ behavior = "config")
  /\ clocksObj # "none" => (~requestSeen /\ idleLeft = 0)

\* C4's case: a request arrived before the idle window ran out
C4_Witness ==
  requestSeen /\ idleLeft > 0 /\ idleLeft < idleFor /\ ~tickerArmed

\* C5: if the access point started and no HTTP request is ever received,
\* then, the timer and the loop running, eventually and from then on the
\* ConfigBehavior is destroyed, the ClocksBehavior is the live delegate and no
\* ConfigBehavior tick is in progress.
C5_IdleLeadsToClocks ==
  (<>cfgInitialized /\ []~requestSeen) =>
     <>[](/\ behavior = "clocks" /\ clocksObj = "alive"
          /\ configObj = "destroyed" /\ pc # "cfg_http")

\* C5's case: the watchdog fired with no request seen, and ticks go to the
\* ClocksBehavior
C5_Witness ==
  /\ cfgInitialized /\ ~requestSeen
  /\ behavior = "clocks" /\ cb = "idle" /\ clkHist.ticks = MaxTicks

\* the object GET /settings should send for the given values, in key order
ObjectOf(values) ==
  [kind |-> "object",
   members |-> [i \in 1..Len(values) |-> [key |-> CONFIG_KEYS[i], value |-> values[i]]]]

\* C6: after a POST /settings that supplied all four fields and was answered
\* 200, a GET /settings returns exactly the four posted values under the four
\* keys in the fixed order.
C6_RoundTrip ==
  (response.req = "GET /settings" /\ posted.valid /\ DOMAIN posted.args = KeySet) =>
     response.body = ObjectOf([i \in 1..CONFIG_KEYS_COUNT |-> posted.args[CONFIG_KEYS[i]]])

\* the members of a body under a key
ValuesOf(body, key) ==
  {body.members[i].value : i \in {j \in 1..Len(body.members) : body.members[j].key = key}}

\* C7: after a POST /settings without a timezone value, a GET /settings
\* reports the tz field as the default +00:00, not as an empty value.
C7_TzDefaulted ==
  (response.req = "GET /settings" /\ posted.valid /\ arg(posted.args, "tz") = <<>>) =>
     ValuesOf(response.body, "tz") = {PLUS_0000}

\* C8: for a store never posted to, a GET /settings returns {} when the file
\* does not exist and, when it holds k of the four lines (0 <= k <= 4), the
\* object of the first k keys with those k values; after a POST of all four
\* fields the GET returns all four keys.
C8_GetReturnsStoredLines ==
  response.req = "GET /settings" =>
     IF posted.valid
     THEN DOMAIN posted.args = KeySet =>
            /\ response.body.kind = "object"
            /\ [i \in 1..Len(response.body.members) |-> response.body.members[i].key]
                 = CONFIG_KEYS
     ELSE IF ~configFile.exists THEN response.body = ObjectOf(<<>>)
     ELSE \E k \in 0..CONFIG_KEYS_COUNT : \E vs \in seqsOf(LineValues, k) :
            /\ configFile.data = linesOf(vs)
            /\ response.body = ObjectOf(vs)

\* the blocking steps of init()
InitSteps == {"open", "connect", "scan", "geolocate"}

\* C9: init() runs on the first tick of the ClocksBehavior and never again,
\* however it ended: before the first tick it has not run, after it
\* initialized is set and init() has run once, and a later tick takes none of
\* init()'s blocking steps.
C9_InitOnce ==
  /\ clkHist.inits <= 1
  /\ clkHist.ticks = 0 => (clkHist.inits = 0 /\ ~clk.initialized)
  /\ clkHist.ticks >= 1 => (clkHist.inits = 1 /\ clk.initialized)
  /\ clkHist.ticks >= 2 => clkHist.steps \cap InitSteps = {}

\* C9's case: a tick after an init() that found no settings file
C9_Witness ==
  clkHist.ticks >= 2 /\ clkHist.result = "no_settings"

\* C10 as claimed: after the first tick the periodic resynchronization is
\* armed, whether init() succeeded or failed.
C10_AlwaysPeriodic ==
  clk.initialized => clk.syncArmed

\* C10 as amended: after the first tick the periodic resynchronization is armed
\* exactly when the settings file opened and the station connected (with a
\* literal offset, or with geolocation done, failed or skipped); when the file
\* is absent or the connection failed nothing is armed.
C10_PeriodicIffConnected ==
  /\ clk.initialized =>
       (clk.syncArmed <=> clkHist.result \in {"literal", "located", "not_located"})
  /\ ~clk.initialized => ~clk.syncArmed

\* C10's case: init() connected, got no location, and armed the resync
C10_Witness ==
  clk.initialized /\ clkHist.result = "not_located" /\ clk.syncArmed

\* C11: the geolocation request is sent only when tz is "auto", the station
\* connected and the scan reported more than one network; when the scan
\* reported 0 or 1 networks or failed, no geolocation request is ever sent,
\* the Location stays invalid and the offset stays 0.
C11_GeolocateNeedsTwoNetworks ==
  /\ "geolocate_POST" \in clkHist.requests =>
       /\ configFile.exists /\ TzOf(configFile) = AUTO
       /\ "connect" \in clkHist.initSteps /\ clkHist.result # "no_connect"
       /\ clkHist.scan.done /\ clkHist.scan.found > 1
  /\ (clkHist.scan.done /\ clkHist.scan.found <= 1) =>
       /\ clkHist.requests \cap {"geolocate", "geolocate_POST", "GET"} = {}
       /\ ~isValid(clk.location)
       /\ clk.tzOffset = 0

\* C11's case: the scan reported one network, and the ticks and a
\* successful sync followed
C11_Witness ==
  /\ clkHist.scan.done /\ clkHist.scan.found = 1
  /\ clkHist.ticks = MaxTicks /\ clkHist.lastSync.ok

\* C12: when the HEAD request of a time query fails, the second request is
\* not sent, the query returns 0, the offset and the Location are as before
\* the query, and the clock still runs from the epoch of the last successful
\* sync.
C12_HeadFailureNoUpdate ==
  clkHist.query.head = "failed" =>
    /\ clkHist.query.get = "none" /\ "GET" \notin clkHist.steps
    /\ clkHist.query.time = 0
    /\ clk.tzOffset = clkHist.query.before.tzOffset
    /\ clk.location = clkHist.query.before.location
    /\ clkHist.lastSync.ok =>
         /\ clkHist.lastSync.at < clkHist.queries[Len(clkHist.queries)]
         /\ timeLib.sysTime =
              clkHist.lastSync.epoch + (timeLib.prevMillis - clkHist.lastSync.at)

\* C12's case: a resync whose HEAD request failed, after a successful sync
C12_Witness ==
  /\ clkHist.query.head = "failed" /\ clkHist.lastSync.ok
  /\ clkHist.printed.done

\* C13: when the HEAD request succeeded and the Location is valid, the
\* second request is sent and the query returns the epoch of the Date header
\* whatever the second request met; when it did not answer 200 the offset is
\* as before the query, and when its body has both members the offset is
\* rawOffset + dstOffset.
C13_OffsetRequestOutcome ==
  (clkHist.query.head = "ok" /\ isValid(clkHist.query.before.location)) =>
    /\ clkHist.query.get # "none" /\ "GET" \in clkHist.steps
    /\ clkHist.query.time = clkHist.query.date
    /\ clkHist.query.date \in Epochs
    /\ clkHist.lastSync = [ok |-> TRUE, at |-> timeLib.prevMillis,
                           epoch |-> clkHist.query.date]
    /\ clkHist.query.get = "http_failed" =>
         clk.tzOffset = clkHist.query.before.tzOffset
    /\ (/\ clkHist.query.get = "ok"
        /\ clkHist.query.rawOffset.present /\ clkHist.query.dstOffset.present) =>
         clk.tzOffset = clkHist.query.rawOffset.value + clkHist.query.dstOffset.value

\* C13's case: the offset request failed after an earlier query had set an
\* offset
C13_Witness ==
  /\ clkHist.query.head = "ok" /\ clkHist.query.get = "http_failed"
  /\ clkHist.query.before.tzOffset # 0

\* C14: a malformed body of the second request leaves the offset as a
\* transport failure does: when the body does not parse, or parses and lacks
\* rawOffset or dstOffset, the offset is as before the query.
C14_MalformedKeepsOffset ==
  (\/ clkHist.query.get = "parse_failed"
   \/ /\ clkHist.query.get = "ok"
      /\ ~(clkHist.query.rawOffset.present /\ clkHist.query.dstOffset.present)) =>
    clk.tzOffset = clkHist.query.before.tzOffset

\* C15: a tick at t2 after the last successful sync, made at t1 < t2 with
\* epoch e1, hands e1 + (t2 - t1) + tzOffset to the display stand-in; and a
\* tick after the first sends a request only when a resync is due, a day or
\* more after the previous query.
C15_ReportedTime ==
  /\ (/\ clkHist.printed.done /\ clkHist.lastSync.ok
      /\ clkHist.lastSync.at < clkHist.printed.at) =>
       clkHist.printed.value =
         clkHist.lastSync.epoch + (clkHist.printed.at - clkHist.lastSync.at) + clk.tzOffset
  /\ (clkHist.ticks >= 2 /\ clkHist.steps # {}) =>
       LET n == Len(clkHist.queries)
       IN  /\ n >= 2
           /\ clkHist.queries[n] = clkHist.printed.at
           /\ clkHist.queries[n] - clkHist.queries[n - 1] >= SECS_PER_DAY

\* C15's case: a tick a day after the last successful sync, with an offset,
\* whose resync failed
C15_Witness ==
  /\ clkHist.printed.done /\ clkHist.lastSync.ok
  /\ clkHist.printed.at - clkHist.lastSync.at >= SECS_PER_DAY
  /\ clkHist.query.head = "failed"
  /\ clk.tzOffset # 0

\* the offset in seconds of every specifier sHH:MM
LiteralOffsets ==
  {<<Literal(s, hh, mm), (IF s = "-" THEN -1 ELSE 1) * (hh * 3600 + mm * 60)>> :
     s \in Signs, hh \in Hours, mm \in Minutes}

\* C16: for every specifier sHH:MM, s in {+,-}, HH in 00..23, MM in 00..59,
\* an init() that reaches the timezone step sets the offset to
\* s * (HH*3600 + MM*60) and takes no scan, no geolocation and no offset
\* request; "-05:30" gives -19800 and "+00:00" gives 0.
C16_LiteralOffset ==
  clkHist.result = "literal" =>
    /\ <<TzOf(configFile), clkHist.initOffset>> \in LiteralOffsets
    /\ clk.tzOffset = clkHist.initOffset
    /\ TzOf(configFile) = MINUS_0530 => clk.tzOffset = -19800
    /\ TzOf(configFile) = PLUS_0000 => clk.tzOffset = 0
    /\ clkHist.requests \cap {"scan", "geolocate", "geolocate_POST", "GET"} = {}

\* C16's case: init() has parsed -23:59 and a sync followed
C16_Witness ==
  /\ clkHist.result = "literal" /\ clkHist.lastSync.ok
  /\ TzOf(configFile) = Literal("-", 23, 59)
  /\ clk.tzOffset = -86340

\* C17: with a literal specifier the offset parsed by init() stays: the
\* Location stays invalid, no offset request is ever sent, and after every
\* tick and resync the offset is the parsed one; the offset differs from the
\* one init() left only after an offset request made with a valid Location
\* that geolocation gave.
C17_LiteralOffsetStays ==
  /\ clkHist.result = "literal" =>
       /\ clk.tzOffset = clkHist.initOffset
       /\ clkHist.initOffset = parseOffset(TzOf(configFile))
       /\ ~isValid(clk.location)
       /\ "GET" \notin clkHist.requests /\ clkHist.query.get = "none"
  /\ clk.tzOffset # clkHist.initOffset =>
       /\ clkHist.result = "located" /\ isValid(clk.location)
       /\ "geolocate_POST" \in clkHist.initSteps
       /\ "GET" \in clkHist.requests

\* C17's case: -05:30 was parsed, a sync succeeded and a later resync failed
C17_Witness ==
  /\ clkHist.result = "literal" /\ TzOf(configFile) = MINUS_0530
  /\ clk.tzOffset = -19800
  /\ clkHist.ticks = MaxTicks /\ Len(clkHist.queries) >= 2
  /\ clkHist.lastSync.ok /\ clkHist.query.head = "failed"

\* C18: the mode only moves forward.  The delegate, once the ClocksBehavior,
\* stays the ClocksBehavior; a ConfigBehavior is built once and, once
\* destroyed, stays destroyed; a ClocksBehavior is built once; the watchdog
\* callback starts only while no ClocksBehavior was built and its
\* ConfigBehavior is alive, and once it has started the ticker is disarmed.
C18_ModeMovesForward ==
  /\ [](clocksObj # "none" => ~tickerArmed)
  /\ [][/\ behavior = "clocks" => behavior' = "clocks"
        /\ behavior = "config" => behavior' \in {"config", "clocks"}
        /\ configObj = "alive" => configObj' \in {"alive", "destroyed"}
        /\ configObj = "destroyed" => configObj' = "destroyed"
        /\ clocksObj # "none" => clocksObj' = clocksObj
        /\ (cb = "idle" /\ cb' # "idle") =>
             (clocksObj = "none" /\ configObj = "alive" /\ behavior = "config")]_vars

\* C18's case: the switch is over and the ClocksBehavior has had its ticks
C18_Witness ==
  /\ behavior = "clocks" /\ cb = "idle" /\ ~tickerArmed
  /\ clk.initialized /\ clkHist.ticks >= 2

\* C19: once an HTTP request has reached canHandle, from then on the ticker
\* is disarmed, the callback never runs, no ClocksBehavior is built and the
\* delegate stays the ConfigBehavior.
C19_NeverRearmed ==
  [](requestSeen =>
       [](~tickerArmed /\ cb = "idle" /\ clocksObj = "none" /\ behavior = "config"))

\* C19's case: a request was answered and ticks of the ConfigBehavior go on
C19_Witness ==
  /\ requestSeen /\ posted.valid /\ response.req = "GET /settings"
  /\ pc = "cfg_http"

\* C20: when WiFi.softAP failed in the constructor, the ConfigBehavior stays
\* uninitialized and the delegate, the ticker is not armed, no callback runs,
\* no ClocksBehavior is built, and every step from such a state, a tick
\* included, leaves the whole state as it is.
C20_ApFailureNoOp ==
  /\ []((behavior = "config" /\ ~cfgInitialized) =>
          /\ ~tickerArmed /\ cb = "idle" /\ pc = "loop"
          /\ configObj = "alive" /\ clocksObj = "none")
  /\ [][(behavior = "config" /\ ~cfgInitialized) => UNCHANGED vars]_vars

\* C20's case: the constructor returned early and loop() is called
C20_Witness ==
  /\ behavior = "config" /\ ~cfgInitialized /\ configObj = "alive"
  /\ pc = "loop" /\ idleLeft = 0 /\ ~requestSeen

====
